---- MODULE Spec2Model ----
(***************************************************************************)
(* Session / token lifecycle and check-in protocol of the attendance       *)
(* server (server/controllers/sessionsController.js and                    *)
(* server/controllers/attendanceController.js, models Session and          *)
(* Attendance).                                                            *)
(*                                                                         *)
(* Time is counted in whole seconds since the epoch.  A Date field that is *)
(* undefined is NULL.  Tokens (crypto.randomBytes(20)) are modelled as     *)
(* never-repeating values 1, 2, 3, ...                                     *)
(***************************************************************************)
EXTENDS Integers, Sequences, FiniteSets, TLC

\* ---------------------------------------------------------------- bounds
MaxSessions == 2
MaxTokens   == 2
MaxRecords  == 2
MaxRequests == 4

\* ------------------------------------------------------ program constants
QR_EXPIRY_SECONDS    == 60
DefaultExpiryDays    == 210
LateThresholdMinutes == 15
ManilaOffsetHours    == 8
SecondsPerDay        == 86400
DuplicateKeyCode     == 11000

NULL == -1

Teachers == {"t1", "t2"}
Students == {"s1", "s2"}
Subjects == {"", "Algebra"}

\* The instants at which the model lets requests arrive.  The clock starts
\* one rotation window before midnight of UTC+8 (16:00 UTC), so that the end
\* of the first token's window, the second after it and the change of the
\* calendar day all fall on these instants.
Midnight == 16 * 60 * 60
Instants == {Midnight - QR_EXPIRY_SECONDS, Midnight, Midnight + 1}
FirstInstant == Midnight - QR_EXPIRY_SECONDS

\* expiresAt values a Create request may carry (NULL: field omitted)
ExpiryInputs == {NULL, Midnight}

VARIABLES
    sessions,   \* the Session collection: sequence of documents, _id = index
    ledger,     \* the Attendance collection, in insertion order
    now,        \* the server clock (Date.now()), in seconds
    nextToken,  \* the next value crypto.randomBytes will return
    reqs,       \* requests in flight (interleaved specification only)
    served      \* requests taken up so far (interleaved specification only)

vars == <<sessions, ledger, now, nextToken, reqs, served>>

Slots == {1, 2}

SessionIds == 1..MaxSessions
TokenInputs == (1..MaxTokens) \cup {NULL}

\* ------------------------------------------------------------- documents
\* Session.create: schema defaults of models/Session.js
NewSession(teacher, subject, expiry) ==
    [teacher |-> teacher, subject |-> subject, isActive |-> FALSE,
     startTime |-> NULL, endTime |-> NULL, expiresAt |-> expiry,
     qrToken |-> NULL, qrExpiresAt |-> NULL]

\* a default expiry of 180 days
CreateExpirySixMonths(expiresAt, t) ==
    IF expiresAt /= NULL THEN expiresAt
    ELSE t + 180 * 24 * 60 * 60

\* createSession: expiry = expiresAt ? new Date(expiresAt) : now + 210 days
CreateExpiry(expiresAt, t) ==
    IF expiresAt /= NULL THEN expiresAt
    ELSE t + DefaultExpiryDays * 24 * 60 * 60

\* a Start without the expiry test
StartNeverBlocked(doc, t) == FALSE

\* startSession: session.expiresAt && new Date() > new Date(session.expiresAt)
StartBlocked(doc, t) == doc.expiresAt /= NULL /\ t > doc.expiresAt

\* a Start that stamps startTime on every call
StartAssignResets(doc, t, token) ==
    [doc EXCEPT !.isActive = TRUE, !.startTime = t,
                !.qrToken = token, !.qrExpiresAt = t + QR_EXPIRY_SECONDS]

\* a Start that leaves startTime alone
StartAssignNoStamp(doc, t, token) ==
    [doc EXCEPT !.isActive = TRUE, !.qrToken = token,
                !.qrExpiresAt = t + QR_EXPIRY_SECONDS]

\* a Start whose rotation window is counted from the first start
StartAssignFixedWindow(doc, t, token) ==
    [doc EXCEPT !.isActive = TRUE,
                !.startTime = IF doc.startTime /= NULL THEN doc.startTime ELSE t,
                !.qrToken = token,
                !.qrExpiresAt = (IF doc.startTime /= NULL THEN doc.startTime ELSE t)
                                    + QR_EXPIRY_SECONDS]

\* a Start that stamps startTime anew on a session that was stopped
StartAssignRestartsClock(doc, t, token) ==
    [doc EXCEPT !.isActive = TRUE,
                !.startTime = IF doc.startTime /= NULL /\ doc.endTime = NULL
                              THEN doc.startTime ELSE t,
                !.qrToken = token,
                !.qrExpiresAt = t + QR_EXPIRY_SECONDS]

\* startSession: the four assignments before session.save()
StartAssign(doc, t, token) ==
    [doc EXCEPT !.isActive = TRUE,
                !.startTime = IF doc.startTime /= NULL THEN doc.startTime ELSE t,
                !.qrToken = token,
                !.qrExpiresAt = t + QR_EXPIRY_SECONDS]

\* a refresh that swaps the token and keeps the old deadline
RefreshAssignKeepsDeadline(doc, t, token) ==
    [doc EXCEPT !.qrToken = token]

\* a refresh that also stamps startTime
RefreshAssignRestamps(doc, t, token) ==
    [doc EXCEPT !.startTime = t, !.qrToken = token,
                !.qrExpiresAt = t + QR_EXPIRY_SECONDS]

\* refreshQR: the two assignments before session.save()
RefreshAssign(doc, t, token) ==
    [doc EXCEPT !.qrToken = token, !.qrExpiresAt = t + QR_EXPIRY_SECONDS]

\* a Stop that leaves the token in place
StopAssignKeepsToken(doc, t) ==
    [doc EXCEPT !.isActive = FALSE, !.endTime = t]

\* stopSession: the four assignments before session.save()
StopAssign(doc, t) ==
    [doc EXCEPT !.isActive = FALSE, !.endTime = t,
                !.qrToken = NULL, !.qrExpiresAt = NULL]

\* a filter that tests endTime, as the isExpired virtual does
SweepFilterByEndTime(doc, t) ==
    doc.isActive /\ doc.endTime /= NULL /\ t > doc.endTime

\* getSessions: the filter of the auto-stop
SweepFilter(doc, t) ==
    doc.isActive /\ doc.expiresAt /= NULL /\ t > doc.expiresAt

\* an auto-stop that stamps endTime as Stop does
SweepAssignOverwritesEnd(doc, t) ==
    [doc EXCEPT !.isActive = FALSE, !.endTime = t,
                !.qrToken = NULL, !.qrExpiresAt = NULL]

\* an auto-stop that leaves the token in place
SweepAssignKeepsToken(doc, t) ==
    [doc EXCEPT !.isActive = FALSE,
                !.endTime = IF doc.endTime /= NULL THEN doc.endTime ELSE t]

\* getSessions: the assignments of the auto-stop
SweepAssign(doc, t) ==
    [doc EXCEPT !.isActive = FALSE,
                !.endTime = IF doc.endTime /= NULL THEN doc.endTime ELSE t,
                !.qrToken = NULL, !.qrExpiresAt = NULL]

\* document.save(): only the paths whose value differs from the value that
\* was loaded are written; every other path keeps what the store holds
SaveField(stored, loaded, assigned) ==
    IF assigned /= loaded THEN assigned ELSE stored

\* a save that writes qrExpiresAt only if no other request wrote it since
\* the load
SaveKeepsNewerDeadline(stored, loaded, assigned) ==
    [teacher     |-> stored.teacher,
     subject     |-> stored.subject,
     isActive    |-> SaveField(stored.isActive, loaded.isActive, assigned.isActive),
     startTime   |-> SaveField(stored.startTime, loaded.startTime, assigned.startTime),
     endTime     |-> SaveField(stored.endTime, loaded.endTime, assigned.endTime),
     expiresAt   |-> stored.expiresAt,
     qrToken     |-> SaveField(stored.qrToken, loaded.qrToken, assigned.qrToken),
     qrExpiresAt |-> IF stored.qrExpiresAt = loaded.qrExpiresAt
                     THEN SaveField(stored.qrExpiresAt, loaded.qrExpiresAt,
                                    assigned.qrExpiresAt)
                     ELSE stored.qrExpiresAt]

\* a save that moves expiresAt along with a changed endTime
SaveMovesExpiry(stored, loaded, assigned) ==
    [teacher     |-> stored.teacher,
     subject     |-> stored.subject,
     isActive    |-> SaveField(stored.isActive, loaded.isActive, assigned.isActive),
     startTime   |-> SaveField(stored.startTime, loaded.startTime, assigned.startTime),
     endTime     |-> SaveField(stored.endTime, loaded.endTime, assigned.endTime),
     expiresAt   |-> SaveField(stored.expiresAt, loaded.endTime, assigned.endTime),
     qrToken     |-> SaveField(stored.qrToken, loaded.qrToken, assigned.qrToken),
     qrExpiresAt |-> SaveField(stored.qrExpiresAt, loaded.qrExpiresAt, assigned.qrExpiresAt)]

Save(stored, loaded, assigned) ==
    [teacher     |-> stored.teacher,
     subject     |-> stored.subject,
     isActive    |-> SaveField(stored.isActive, loaded.isActive, assigned.isActive),
     startTime   |-> SaveField(stored.startTime, loaded.startTime, assigned.startTime),
     endTime     |-> SaveField(stored.endTime, loaded.endTime, assigned.endTime),
     expiresAt   |-> stored.expiresAt,
     qrToken     |-> SaveField(stored.qrToken, loaded.qrToken, assigned.qrToken),
     qrExpiresAt |-> SaveField(stored.qrExpiresAt, loaded.qrExpiresAt, assigned.qrExpiresAt)]

\* a lookup by _id alone
FindOwnedAnyTeacher(id, teacher) ==
    IF id \in DOMAIN sessions THEN id ELSE NULL

\* Session.findOne({ _id: id, teacher: req.user._id })
FindOwned(id, teacher) ==
    IF id \in DOMAIN sessions /\ sessions[id].teacher = teacher THEN id ELSE NULL

\* a lookup that ignores the presented token and takes an active session
FindByTokenAnyActive(token) ==
    IF \E id \in DOMAIN sessions : sessions[id].isActive
    THEN CHOOSE id \in DOMAIN sessions : sessions[id].isActive
    ELSE NULL

\* Session.findOne({ qrToken: token })
FindByToken(token) ==
    IF \E id \in DOMAIN sessions : sessions[id].qrToken = token
    THEN CHOOSE id \in DOMAIN sessions : sessions[id].qrToken = token
    ELSE NULL

\* a deadline test that already rejects at the deadline
QrExpiredInclusive(doc, t) == doc.qrExpiresAt /= NULL /\ t >= doc.qrExpiresAt

\* new Date() > session.qrExpiresAt (false when qrExpiresAt is undefined)
QrExpired(doc, t) == doc.qrExpiresAt /= NULL /\ t > doc.qrExpiresAt

\* models/Session.js, virtual isQrValid: false without a token or a
\* deadline, else new Date() < qrExpiresAt && isActive
IsQrValid(doc, t) ==
    IF doc.qrToken = NULL \/ doc.qrExpiresAt = NULL THEN FALSE
    ELSE t < doc.qrExpiresAt /\ doc.isActive

\* Date.prototype.toISOString().split("T")[0]: the UTC calendar date of the
\* instant, "YYYY-MM-DD", written as the number YYYYMMDD
ToISODate(t) ==
    LET z   == (t \div SecondsPerDay) + 719468
        era == z \div 146097
        doe == z - era * 146097
        yoe == (doe - doe \div 1460 + doe \div 36524 - doe \div 146096) \div 365
        doy == doe - (365 * yoe + yoe \div 4 - yoe \div 100)
        mp  == (5 * doy + 2) \div 153
        d   == doy - (153 * mp + 2) \div 5 + 1
        m   == IF mp < 10 THEN mp + 3 ELSE mp - 9
        y   == yoe + era * 400 + (IF m <= 2 THEN 1 ELSE 0)
    IN y * 10000 + m * 100 + d

\* a day key taken from the unshifted instant
DayKeyUTC(t) == ToISODate(t)

\* the date string of the instant shifted by +8 hours
DayKey(t) == ToISODate(t + ManilaOffsetHours * 60 * 60)

\* a status that is already late at the threshold
CheckInStatusInclusive(doc, t) ==
    IF doc.startTime /= NULL /\ (t - doc.startTime) >= LateThresholdMinutes * 60
    THEN "late" ELSE "present"

\* checkIn: late if more than 15 minutes after startTime
CheckInStatus(doc, t) ==
    IF doc.startTime /= NULL /\ (t - doc.startTime) > LateThresholdMinutes * 60
    THEN "late" ELSE "present"

\* a lookup that ignores the student
FindAttendanceAnyStudent(student, sid, day) ==
    \E i \in DOMAIN ledger :
        /\ ledger[i].session = sid
        /\ ledger[i].attendanceDate = day

\* a lookup that ignores the day
FindAttendanceAnyDay(student, sid, day) ==
    \E i \in DOMAIN ledger :
        /\ ledger[i].student = student
        /\ ledger[i].session = sid

\* Attendance.findOne({ student, session, attendanceDate })
FindAttendance(student, sid, day) ==
    \E i \in DOMAIN ledger :
        /\ ledger[i].student = student
        /\ ledger[i].session = sid
        /\ ledger[i].attendanceDate = day

\* a collection without the unique index
NoUniqueIndex(student, sid, day) == FALSE

\* the unique index { student, session, attendanceDate } of models/Attendance.js
UniqueIndexRejects(student, sid, day) == FindAttendance(student, sid, day)

\* the error code Attendance.create throws with (0: none)
InsertError(student, sid, day) ==
    IF UniqueIndexRejects(student, sid, day) THEN DuplicateKeyCode ELSE 0

\* a catch block that does not look at the error code
CatchCheckInAnyError(code) == "ServerFault"

\* checkIn: the catch block
CatchCheckIn(code) ==
    IF code = DuplicateKeyCode THEN "DuplicateCheckIn" ELSE "ServerFault"

\* Attendance.create: the fields of the inserted record
NewAttendance(student, sid, status, day, t) ==
    [student |-> student, session |-> sid, status |-> status,
     attendanceDate |-> day, timestamp |-> t]

\* a request in flight: the handler, where it stands, who called, the
\* documents it loaded, and (check-in) the day key it inserted with and the
\* response it is about to send
Request(op, pc, caller, sid, loaded, day, result) ==
    [op |-> op, pc |-> pc, caller |-> caller, sid |-> sid,
     loaded |-> loaded, day |-> day, result |-> result]

Idle == Request("idle", "idle", "none", NULL, <<>>, NULL, "none")

NoReqs == [s \in Slots |-> Idle]

Init ==
    /\ sessions = <<>>
    /\ ledger = <<>>
    /\ now = FirstInstant
    /\ nextToken = 1
    /\ reqs = NoReqs
    /\ served = 0

\* ---------------------------------------------------------------- clock
Tick(t) ==
    /\ t > now
    /\ now' = t
    /\ UNCHANGED <<sessions, ledger, nextToken, reqs, served>>

\* ------------------------------------------- requests served one at a time
\* Each handler's response is a function of its input and of the state it
\* reads; the Outcome operators name the branch the handler returns from.

\* a create without the subject test
CreateOutcomeAcceptsEmpty(subject) == "ok"

\* createSession: 400 when the subject is missing, 201 otherwise
CreateOutcome(subject) ==
    IF subject = "" THEN "ValidationError" ELSE "ok"

CreateSession(teacher, subject, expiresAt) ==
    /\ IF CreateOutcome(subject) = "ok"
       THEN /\ Len(sessions) < MaxSessions
            /\ sessions' = Append(sessions,
                   NewSession(teacher, subject, CreateExpiry(expiresAt, now)))
       ELSE UNCHANGED sessions
    /\ UNCHANGED <<ledger, now, nextToken, reqs, served>>

\* startSession: 404, 400 (expired) or success
StartOutcome(id, teacher) ==
    IF FindOwned(id, teacher) = NULL THEN "NotFound"
    ELSE IF StartBlocked(sessions[id], now) THEN "Expired"
    ELSE "ok"

StartSession(id, teacher) ==
    /\ IF StartOutcome(id, teacher) = "ok"
       THEN /\ nextToken <= MaxTokens
            /\ sessions' = [sessions EXCEPT ![id] =
                   Save(@, @, StartAssign(@, now, nextToken))]
            /\ nextToken' = nextToken + 1
       ELSE UNCHANGED <<sessions, nextToken>>
    /\ UNCHANGED <<ledger, now, reqs, served>>

\* refreshQR: 400 when the session is missing, not owned or not active
RefreshOutcome(id, teacher) ==
    IF FindOwned(id, teacher) = NULL \/ ~sessions[id].isActive
    THEN "InvalidState" ELSE "ok"

RefreshQR(id, teacher) ==
    /\ IF RefreshOutcome(id, teacher) = "ok"
       THEN /\ nextToken <= MaxTokens
            /\ sessions' = [sessions EXCEPT ![id] =
                   Save(@, @, RefreshAssign(@, now, nextToken))]
            /\ nextToken' = nextToken + 1
       ELSE UNCHANGED <<sessions, nextToken>>
    /\ UNCHANGED <<ledger, now, reqs, served>>

\* stopSession: 404 or success
StopOutcome(id, teacher) ==
    IF FindOwned(id, teacher) = NULL THEN "NotFound" ELSE "ok"

StopSession(id, teacher) ==
    /\ IF StopOutcome(id, teacher) = "ok"
       THEN sessions' = [sessions EXCEPT ![id] = Save(@, @, StopAssign(@, now))]
       ELSE UNCHANGED sessions
    /\ UNCHANGED <<ledger, now, nextToken, reqs, served>>

\* an auto-stop over the sessions of every teacher
SweptEveryTeacher(teacher, t) ==
    {id \in DOMAIN sessions : SweepFilter(sessions[id], t)}

\* the sessions a listing by this teacher auto-stops
Swept(teacher, t) ==
    {id \in DOMAIN sessions :
        sessions[id].teacher = teacher /\ SweepFilter(sessions[id], t)}

GetSessions(teacher) ==
    /\ sessions' = [id \in DOMAIN sessions |->
           IF id \in Swept(teacher, now)
           THEN Save(sessions[id], sessions[id], SweepAssign(sessions[id], now))
           ELSE sessions[id]]
    /\ UNCHANGED <<ledger, now, nextToken, reqs, served>>

\* checkIn: the validation chain, in the order of the handler
CheckInOutcome(token, student) ==
    LET sid == FindByToken(token) IN
    IF token = NULL THEN "TokenRequired"
    ELSE IF sid = NULL THEN "InvalidToken"
    ELSE IF ~sessions[sid].isActive THEN "SessionInactive"
    ELSE IF QrExpired(sessions[sid], now) THEN "TokenExpired"
    ELSE IF FindAttendance(student, sid, DayKey(now)) THEN "DuplicateCheckIn"
    ELSE IF InsertError(student, sid, DayKey(now)) /= 0
    THEN CatchCheckIn(InsertError(student, sid, DayKey(now)))
    ELSE "ok"

\* a check-in that keeps one record per student and session, replacing the
\* record of an earlier day
CheckInUpsert(token, student) ==
    LET sid == FindByToken(token)
        kept == SelectSeq(ledger,
                    LAMBDA r : ~(r.student = student /\ r.session = sid))
    IN
    /\ IF CheckInOutcome(token, student) = "ok"
       THEN /\ Len(ledger) < MaxRecords
            /\ ledger' = Append(kept, NewAttendance(student, sid,
                   CheckInStatus(sessions[sid], now), DayKey(now), now))
       ELSE UNCHANGED ledger
    /\ UNCHANGED <<sessions, now, nextToken, reqs, served>>

\* a check-in that uses the token up: the session's token is cleared with
\* the insert
CheckInConsumesToken(token, student) ==
    LET sid == FindByToken(token) IN
    /\ IF CheckInOutcome(token, student) = "ok"
       THEN /\ Len(ledger) < MaxRecords
            /\ ledger' = Append(ledger, NewAttendance(student, sid,
                   CheckInStatus(sessions[sid], now), DayKey(now), now))
            /\ sessions' = [sessions EXCEPT ![sid].qrToken = NULL,
                                            ![sid].qrExpiresAt = NULL]
       ELSE UNCHANGED <<ledger, sessions>>
    /\ UNCHANGED <<now, nextToken, reqs, served>>

CheckIn(token, student) ==
    LET sid == FindByToken(token) IN
    /\ IF CheckInOutcome(token, student) = "ok"
       THEN /\ Len(ledger) < MaxRecords
            /\ ledger' = Append(ledger, NewAttendance(student, sid,
                   CheckInStatus(sessions[sid], now), DayKey(now), now))
       ELSE UNCHANGED ledger
    /\ UNCHANGED <<sessions, now, nextToken, reqs, served>>

\* a verify that does not look at the rotation deadline
VerifyOutcomeNoDeadline(token, student) ==
    LET sid == FindByToken(token) IN
    IF sid = NULL \/ ~sessions[sid].isActive
    THEN "InvalidOrExpired"
    ELSE IF FindAttendance(student, sid, DayKey(now)) THEN "alreadyAttended"
    ELSE "ok"

\* a verify that turns a student with a record of the day away
VerifyOutcomeRejectsAttended(token, student) ==
    LET sid == FindByToken(token) IN
    IF sid = NULL \/ ~sessions[sid].isActive \/ QrExpired(sessions[sid], now)
    THEN "InvalidOrExpired"
    ELSE IF FindAttendance(student, sid, DayKey(now)) THEN "InvalidOrExpired"
    ELSE "ok"

\* verifyToken: one 400 for the three validation failures
VerifyOutcome(token, student) ==
    LET sid == FindByToken(token) IN
    IF sid = NULL \/ ~sessions[sid].isActive \/ QrExpired(sessions[sid], now)
    THEN "InvalidOrExpired"
    ELSE IF FindAttendance(student, sid, DayKey(now)) THEN "alreadyAttended"
    ELSE "ok"

VerifyToken(token, student) ==
    /\ VerifyOutcome(token, student) \in {"InvalidOrExpired", "alreadyAttended", "ok"}
    /\ UNCHANGED vars

Next ==
    \/ \E t \in Instants : Tick(t)
    \/ \E t \in Teachers, s \in Subjects, e \in ExpiryInputs : CreateSession(t, s, e)
    \/ \E id \in SessionIds, t \in Teachers : StartSession(id, t)
    \/ \E id \in SessionIds, t \in Teachers : RefreshQR(id, t)
    \/ \E id \in SessionIds, t \in Teachers : StopSession(id, t)
    \/ \E t \in Teachers : GetSessions(t)
    \/ \E k \in TokenInputs, s \in Students : CheckIn(k, s)
    \/ \E k \in TokenInputs, s \in Students : VerifyToken(k, s)

Spec == Init /\ [][Next]_vars

\* ------------------------------------------------------------- the routes
\* Every route runs protect and restrictTo before its handler.  A caller is
\* any authenticated user; the role is the one stored with the user.
Users == Teachers \cup Students

\* models/User.js: role
Role(user) == IF user \in Teachers THEN "teacher" ELSE "student"

\* a restrictTo that lets every role through
RestrictToAnyRole(roles, user) == TRUE

\* restrictTo(...roles): roles.includes(req.user.role)
RestrictTo(roles, user) == Role(user) \in roles

\* the 403 of restrictTo: the handler does not run
Forbidden == UNCHANGED vars

\* a listing of the student's records, oldest first
ListByStudentAscending(student) ==
    SortSeq(SelectSeq(ledger, LAMBDA r : r.student = student),
            LAMBDA a, b : a.timestamp < b.timestamp)

\* getMyAttendance: Attendance.find({ student }).sort({ timestamp: -1 })
ListByStudent(student) ==
    SortSeq(SelectSeq(ledger, LAMBDA r : r.student = student),
            LAMBDA a, b : a.timestamp > b.timestamp)

\* getSession: Attendance.find({ session }).sort({ timestamp: 1 })
ListBySession(sid) ==
    SortSeq(SelectSeq(ledger, LAMBDA r : r.session = sid),
            LAMBDA a, b : a.timestamp < b.timestamp)

\* getSession: 404 or the session with its attendance
GetSessionOutcome(id, teacher) ==
    IF FindOwned(id, teacher) = NULL THEN "NotFound" ELSE "ok"

GetSession(id, teacher) ==
    /\ GetSessionOutcome(id, teacher) = "ok" =>
           Len(ListBySession(id)) <= Len(ledger)
    /\ UNCHANGED vars

GetMyAttendance(student) ==
    /\ Len(ListByStudent(student)) <= Len(ledger)
    /\ UNCHANGED vars

\* routes/sessions.js: router.use(protect, restrictTo("teacher"))
RouteCreate(user, subject, expiresAt) ==
    IF RestrictTo({"teacher"}, user)
    THEN CreateSession(user, subject, expiresAt) ELSE Forbidden

RouteList(user) ==
    IF RestrictTo({"teacher"}, user) THEN GetSessions(user) ELSE Forbidden

RouteGet(id, user) ==
    IF RestrictTo({"teacher"}, user) THEN GetSession(id, user) ELSE Forbidden

RouteStart(id, user) ==
    IF RestrictTo({"teacher"}, user) THEN StartSession(id, user) ELSE Forbidden

RouteRefresh(id, user) ==
    IF RestrictTo({"teacher"}, user) THEN RefreshQR(id, user) ELSE Forbidden

RouteStop(id, user) ==
    IF RestrictTo({"teacher"}, user) THEN StopSession(id, user) ELSE Forbidden

\* routes/attendance.js: restrictTo("student") on each route
RouteCheckIn(token, user) ==
    IF RestrictTo({"student"}, user) THEN CheckIn(token, user) ELSE Forbidden

RouteMy(user) ==
    IF RestrictTo({"student"}, user) THEN GetMyAttendance(user) ELSE Forbidden

RouteVerify(token, user) ==
    IF RestrictTo({"student"}, user) THEN VerifyToken(token, user) ELSE Forbidden

NextRoutes ==
    \/ \E t \in Instants : Tick(t)
    \/ \E u \in Users, s \in Subjects, e \in ExpiryInputs : RouteCreate(u, s, e)
    \/ \E u \in Users : RouteList(u)
    \/ \E id \in SessionIds, u \in Users : RouteGet(id, u)
    \/ \E id \in SessionIds, u \in Users : RouteStart(id, u)
    \/ \E id \in SessionIds, u \in Users : RouteRefresh(id, u)
    \/ \E id \in SessionIds, u \in Users : RouteStop(id, u)
    \/ \E k \in TokenInputs, u \in Users : RouteCheckIn(k, u)
    \/ \E u \in Users : RouteMy(u)
    \/ \E k \in TokenInputs, u \in Users : RouteVerify(k, u)

SpecRoutes == Init /\ [][NextRoutes]_vars

\* ------------------------------------------------- tokens that may repeat
\* The same handlers with crypto.randomBytes returning any value, one that
\* is stored with another session included.  The unique sparse index on
\* qrToken then decides whether session.save() goes through.

\* a collection without the index on qrToken
NoTokenIndex(id, token) == FALSE

\* models/Session.js: qrToken { unique: true, sparse: true }
TokenIndexRejects(id, token) ==
    \E other \in DOMAIN sessions :
        other /= id /\ sessions[other].qrToken = token

\* startSession: 404, 400 (expired), 500 when save() throws, or success
StartDrawnOutcome(id, teacher, token) ==
    IF StartOutcome(id, teacher) /= "ok" THEN StartOutcome(id, teacher)
    ELSE IF TokenIndexRejects(id, token) THEN "ServerFault"
    ELSE "ok"

StartDrawn(id, teacher, token) ==
    /\ IF StartDrawnOutcome(id, teacher, token) = "ok"
       THEN sessions' = [sessions EXCEPT ![id] =
                Save(@, @, StartAssign(@, now, token))]
       ELSE UNCHANGED sessions
    /\ UNCHANGED <<ledger, now, nextToken, reqs, served>>

\* refreshQR: 400, 500 when save() throws, or success
RefreshDrawnOutcome(id, teacher, token) ==
    IF RefreshOutcome(id, teacher) /= "ok" THEN RefreshOutcome(id, teacher)
    ELSE IF TokenIndexRejects(id, token) THEN "ServerFault"
    ELSE "ok"

RefreshDrawn(id, teacher, token) ==
    /\ IF RefreshDrawnOutcome(id, teacher, token) = "ok"
       THEN sessions' = [sessions EXCEPT ![id] =
                Save(@, @, RefreshAssign(@, now, token))]
       ELSE UNCHANGED sessions
    /\ UNCHANGED <<ledger, now, nextToken, reqs, served>>

NextDrawn ==
    \/ \E t \in Instants : Tick(t)
    \/ \E t \in Teachers, s \in Subjects, e \in ExpiryInputs : CreateSession(t, s, e)
    \/ \E id \in SessionIds, t \in Teachers, k \in 1..MaxTokens : StartDrawn(id, t, k)
    \/ \E id \in SessionIds, t \in Teachers, k \in 1..MaxTokens : RefreshDrawn(id, t, k)
    \/ \E id \in SessionIds, t \in Teachers : StopSession(id, t)
    \/ \E k \in TokenInputs, s \in Students : VerifyToken(k, s)

SpecDrawn == Init /\ [][NextDrawn]_vars

\* ------------------------------------------------ a class hour of requests
\* The same handlers with the clock running over the minutes after the
\* first instant: 10, 15, 15 and a second, and 20 minutes.
LateInstants ==
    {FirstInstant + 10 * 60, FirstInstant + LateThresholdMinutes * 60,
     FirstInstant + LateThresholdMinutes * 60 + 1, FirstInstant + 20 * 60}

NextLate ==
    \/ \E t \in LateInstants : Tick(t)
    \/ \E t \in Teachers, s \in Subjects, e \in ExpiryInputs : CreateSession(t, s, e)
    \/ \E id \in SessionIds, t \in Teachers : StartSession(id, t)
    \/ \E id \in SessionIds, t \in Teachers : RefreshQR(id, t)
    \/ \E k \in TokenInputs, s \in Students : CheckIn(k, s)

SpecLate == Init /\ [][NextLate]_vars

\* ------------------------------------------- a session stopped and resumed
\* Create, Start, Stop and CheckIn with the clock at the first instant, 15
\* minutes later and one second after that.
RestartInstants ==
    {FirstInstant + LateThresholdMinutes * 60,
     FirstInstant + LateThresholdMinutes * 60 + 1}

NextRestart ==
    \/ \E t \in RestartInstants : Tick(t)
    \/ \E t \in Teachers, s \in Subjects, e \in ExpiryInputs : CreateSession(t, s, e)
    \/ \E id \in SessionIds, t \in Teachers : StartSession(id, t)
    \/ \E id \in SessionIds, t \in Teachers : StopSession(id, t)
    \/ \E k \in TokenInputs, s \in Students : CheckIn(k, s)

SpecRestart == Init /\ [][NextRestart]_vars

\* ------------------------------------------------- check-ins across days
\* The same handlers with the clock drawn from the instants around the
\* start of a day in UTC+8: its last second before, its first second, and
\* 08:00 of that day (00:00 UTC).  The days, counted from 1970-01-01, are
\* 1970-03-01, 1972-02-29, 1972-03-01, 2000-02-29, 2000-03-01, 2024-12-31
\* and 2025-01-01.
BoundaryDays == {59, 789, 790, 11016, 11017, 20088, 20089}

DayInstants ==
    {d * SecondsPerDay - ManilaOffsetHours * 60 * 60 + s :
        d \in BoundaryDays, s \in {-1, 0, ManilaOffsetHours * 60 * 60}}

\* a session created and started at the drawn instant
InitDay ==
    /\ now \in DayInstants
    /\ sessions = <<StartAssign(NewSession("t1", "Algebra", CreateExpiry(NULL, now)),
                                now, 1)>>
    /\ ledger = <<>>
    /\ nextToken = 2
    /\ reqs = NoReqs
    /\ served = 0

NextDay ==
    \/ \E t \in DayInstants : Tick(t)
    \/ \E id \in SessionIds, t \in Teachers : RefreshQR(id, t)
    \/ \E k \in TokenInputs, s \in Students : CheckIn(k, s)
    \/ \E k \in TokenInputs, s \in Students : VerifyToken(k, s)

SpecDay == InitDay /\ [][NextDay]_vars

\* ------------------------------------------------- interleaved requests
\* Every handler awaits its database operations, so the operations of
\* different requests interleave.  A step below is the handler code between
\* two awaits together with the database operation it then issues.

Free(slot) == reqs[slot].op = "idle" /\ served < MaxRequests

At(slot, op, pc) == reqs[slot].op = op /\ reqs[slot].pc = pc

Take(slot, r) ==
    /\ reqs' = [reqs EXCEPT ![slot] = r]
    /\ served' = served + 1

Release(slot) == reqs' = [reqs EXCEPT ![slot] = Idle]

\* the document a single-session request loaded
Loaded(slot) == reqs[slot].loaded[reqs[slot].sid]

\* Session.create is one insert
CreateRequest(teacher, subject, expiresAt) ==
    /\ served < MaxRequests
    /\ CreateOutcome(subject) = "ok"
    /\ Len(sessions) < MaxSessions
    /\ sessions' = Append(sessions,
           NewSession(teacher, subject, CreateExpiry(expiresAt, now)))
    /\ served' = served + 1
    /\ UNCHANGED <<ledger, now, nextToken, reqs>>

\* startSession, refreshQR, stopSession up to the first await: findOne
LoadOwned(slot, op, id, teacher) ==
    /\ Free(slot)
    /\ FindOwned(id, teacher) /= NULL
    /\ op = "refresh" => sessions[id].isActive
    /\ Take(slot, Request(op, "loaded", teacher, id, id :> sessions[id], NULL, "none"))
    /\ UNCHANGED <<sessions, ledger, now, nextToken>>

\* startSession from the expiry test to session.save()
SaveStart(slot) ==
    /\ At(slot, "start", "loaded")
    /\ IF StartBlocked(Loaded(slot), now)
       THEN UNCHANGED <<sessions, nextToken>>
       ELSE /\ nextToken <= MaxTokens
            /\ sessions' = [sessions EXCEPT ![reqs[slot].sid] =
                   Save(@, Loaded(slot), StartAssign(Loaded(slot), now, nextToken))]
            /\ nextToken' = nextToken + 1
    /\ Release(slot)
    /\ UNCHANGED <<ledger, now, served>>

\* refreshQR from the token generation to session.save()
SaveRefresh(slot) ==
    /\ At(slot, "refresh", "loaded")
    /\ nextToken <= MaxTokens
    /\ sessions' = [sessions EXCEPT ![reqs[slot].sid] =
           Save(@, Loaded(slot), RefreshAssign(Loaded(slot), now, nextToken))]
    /\ nextToken' = nextToken + 1
    /\ Release(slot)
    /\ UNCHANGED <<ledger, now, served>>

\* stopSession from the assignments to session.save()
SaveStop(slot) ==
    /\ At(slot, "stop", "loaded")
    /\ sessions' = [sessions EXCEPT ![reqs[slot].sid] =
           Save(@, Loaded(slot), StopAssign(Loaded(slot), now))]
    /\ Release(slot)
    /\ UNCHANGED <<ledger, now, nextToken, served>>

\* getSessions up to the first await: Session.find({ teacher })
LoadList(slot, teacher) ==
    LET owned == {id \in DOMAIN sessions : sessions[id].teacher = teacher} IN
    /\ Free(slot)
    /\ \E id \in owned : sessions[id].isActive
    /\ Take(slot, Request("list", "loaded", teacher, NULL,
                          [id \in owned |-> sessions[id]], NULL, "none"))
    /\ UNCHANGED <<sessions, ledger, now, nextToken>>

\* getSessions: the filter at the handler's clock and the saves of the auto-stop
SaveList(slot) ==
    LET docs == reqs[slot].loaded IN
    /\ At(slot, "list", "loaded")
    /\ sessions' = [id \in DOMAIN sessions |->
           IF id \in DOMAIN docs /\ SweepFilter(docs[id], now)
           THEN Save(sessions[id], docs[id], SweepAssign(docs[id], now))
           ELSE sessions[id]]
    /\ Release(slot)
    /\ UNCHANGED <<ledger, now, nextToken, served>>

\* checkIn up to the first await: Session.findOne({ qrToken: token })
LoadCheckIn(slot, token, student) ==
    LET sid == FindByToken(token) IN
    /\ Free(slot)
    /\ token /= NULL
    /\ sid /= NULL
    /\ Take(slot, Request("checkIn", "found", student, sid, sid :> sessions[sid],
                          NULL, "none"))
    /\ UNCHANGED <<sessions, ledger, now, nextToken>>

\* checkIn from the active test to Attendance.findOne
LookupCheckIn(slot) ==
    /\ At(slot, "checkIn", "found")
    /\ IF \/ ~Loaded(slot).isActive
          \/ QrExpired(Loaded(slot), now)
          \/ FindAttendance(reqs[slot].caller, reqs[slot].sid, DayKey(now))
       THEN Release(slot)
       ELSE reqs' = [reqs EXCEPT ![slot].pc = "lookedUp"]
    /\ UNCHANGED <<sessions, ledger, now, nextToken, served>>

\* checkIn from the status computation to Attendance.create
InsertCheckIn(slot) ==
    LET student == reqs[slot].caller
        sid == reqs[slot].sid
        day == DayKey(now)
        code == InsertError(student, sid, day)
    IN
    /\ At(slot, "checkIn", "lookedUp")
    /\ IF code = 0
       THEN /\ Len(ledger) < MaxRecords
            /\ ledger' = Append(ledger, NewAttendance(student, sid,
                   CheckInStatus(Loaded(slot), now), day, now))
            /\ reqs' = [reqs EXCEPT ![slot].pc = "done", ![slot].day = day,
                                    ![slot].result = "ok"]
       ELSE /\ UNCHANGED ledger
            /\ reqs' = [reqs EXCEPT ![slot].pc = "done", ![slot].day = day,
                                    ![slot].result = CatchCheckIn(code)]
    /\ UNCHANGED <<sessions, now, nextToken, served>>

\* checkIn: the response leaves
RespondCheckIn(slot) ==
    /\ At(slot, "checkIn", "done")
    /\ Release(slot)
    /\ UNCHANGED <<sessions, ledger, now, nextToken, served>>

NextConc ==
    \/ \E t \in Instants : Tick(t)
    \/ \E t \in Teachers, s \in Subjects, e \in ExpiryInputs : CreateRequest(t, s, e)
    \/ \E slot \in Slots, op \in {"start", "refresh", "stop"},
          id \in SessionIds, t \in Teachers : LoadOwned(slot, op, id, t)
    \/ \E slot \in Slots : SaveStart(slot)
    \/ \E slot \in Slots : SaveRefresh(slot)
    \/ \E slot \in Slots : SaveStop(slot)
    \/ \E slot \in Slots, t \in Teachers : LoadList(slot, t)
    \/ \E slot \in Slots : SaveList(slot)
    \/ \E slot \in Slots, k \in TokenInputs, s \in Students : LoadCheckIn(slot, k, s)
    \/ \E slot \in Slots : LookupCheckIn(slot)
    \/ \E slot \in Slots : InsertCheckIn(slot)
    \/ \E slot \in Slots : RespondCheckIn(slot)
    \/ \E k \in TokenInputs, s \in Students : VerifyToken(k, s)

SpecConc == Init /\ [][NextConc]_vars

\* ------------------------------------------------------- the QR modal
\* The teacher's client with the QR modal open on a started session.  The
\* modal shows the session of the latest response; its interval callback
\* runs once a second and posts refresh-qr when the countdown is 0.  The
\* request is in flight from the post until handleRefreshQR has the
\* response (the server's save and the response are one step).

\* the last second the modal is followed to
ModalHorizon == FirstInstant + 2 * QR_EXPIRY_SECONDS + 2

\* QRModal.tick: Math.max(0, Math.round((qrExpiresAt - Date.now()) / 1000))
Countdown(doc, t) ==
    IF doc.qrExpiresAt - t > 0 THEN doc.qrExpiresAt - t ELSE 0

\* handleStart: the session is started and the modal opens on the response
InitModal ==
    /\ now = FirstInstant
    /\ sessions = <<StartAssign(NewSession("t1", "Algebra", CreateExpiry(NULL, now)),
                                now, 1)>>
    /\ ledger = <<>>
    /\ nextToken = 2
    /\ reqs = NoReqs
    /\ served = 0

\* setInterval(tick, 1000): a second passes and the callback runs; at
\* countdown 0 it calls handleRefresh, whose request reaches refreshQR's
\* findOne
QRModalTick ==
    /\ now < ModalHorizon
    /\ now' = now + 1
    /\ IF Countdown(sessions[1], now') = 0 /\ sessions[1].isActive
       THEN \E slot \in Slots :
                /\ Free(slot)
                /\ \A other \in Slots : other < slot => reqs[other].op /= "idle"
                /\ Take(slot, Request("refresh", "loaded", sessions[1].teacher, 1,
                                      1 :> sessions[1], NULL, "none"))
       ELSE UNCHANGED <<reqs, served>>
    /\ UNCHANGED <<sessions, ledger, nextToken>>

NextModal ==
    \/ QRModalTick
    \/ \E slot \in Slots : SaveRefresh(slot)

SpecModal == InitModal /\ [][NextModal]_vars

Quiescent == \A slot \in Slots : reqs[slot].op = "idle"

\* ------------------------------------------------------------ properties
IssuedTokens == 1..MaxTokens

SameTriple(r, q) ==
    /\ r.student = q.student
    /\ r.session = q.session
    /\ r.attendanceDate = q.attendanceDate

\* C1: whatever the interleaving of the requests, the ledger never holds two
\* records with the same student, session and day key
LedgerUnique ==
    \A i, j \in DOMAIN ledger :
        i /= j => ~SameTriple(ledger[i], ledger[j])

\* the records of a (student, session, day key)
RecordsOf(student, sid, day) ==
    {i \in DOMAIN ledger : /\ ledger[i].student = student
                           /\ ledger[i].session = sid
                           /\ ledger[i].attendanceDate = day}

\* a check-in that passed the lookup and was turned away by the index, the
\* ledger holding the one record of the request that came first
LedgerUniqueWitness ==
    \E slot \in Slots :
        /\ At(slot, "checkIn", "done")
        /\ reqs[slot].result = "DuplicateCheckIn"
        /\ Cardinality(RecordsOf(reqs[slot].caller, reqs[slot].sid,
                                 reqs[slot].day)) = 1

\* C2: of two check-ins in flight that both passed the lookup and insert
\* with the same student, session and day key, one answers success and the
\* other DuplicateCheckIn; an insert is never answered with a server fault
OneCheckInWins ==
    /\ \A slot \in Slots :
          At(slot, "checkIn", "done") =>
              reqs[slot].result \in {"ok", "DuplicateCheckIn"}
    /\ \A a, b \in Slots :
          (/\ a /= b
           /\ At(a, "checkIn", "done") /\ At(b, "checkIn", "done")
           /\ reqs[a].caller = reqs[b].caller
           /\ reqs[a].sid = reqs[b].sid
           /\ reqs[a].day = reqs[b].day) =>
              {reqs[a].result, reqs[b].result} = {"ok", "DuplicateCheckIn"}

\* both requests of such a pair have been answered
OneCheckInWinsWitness ==
    /\ At(1, "checkIn", "done") /\ At(2, "checkIn", "done")
    /\ reqs[1].caller = reqs[2].caller
    /\ reqs[1].sid = reqs[2].sid
    /\ reqs[1].day = reqs[2].day
    /\ reqs[1].result = "DuplicateCheckIn"

\* C3: in every state reached by serving the lifecycle requests one at a
\* time, each session holds a token exactly when it is active
TokenIffActive ==
    \A id \in DOMAIN sessions :
        (sessions[id].qrToken /= NULL) <=> sessions[id].isActive

\* an active session holding a token beside a session that was started and
\* then stopped
TokenIffActiveWitness ==
    \E a, b \in DOMAIN sessions :
        /\ sessions[a].isActive /\ sessions[a].qrToken /= NULL
        /\ ~sessions[b].isActive /\ sessions[b].startTime /= NULL
        /\ sessions[b].endTime /= NULL /\ sessions[b].qrToken = NULL

\* C4: with the lifecycle requests interleaved, every session holds a token
\* exactly when it is active whenever no request is in flight
QuiescentTokenIffActive == Quiescent => TokenIffActive

\* C5: a check-in strictly after the rotation deadline of the session its
\* token resolves to returns TokenExpired and inserts nothing; at the
\* deadline itself the token is not reported expired
PastDeadline(k) ==
    LET sid == FindByToken(k) IN
    /\ sid /= NULL
    /\ sessions[sid].qrExpiresAt /= NULL
    /\ now > sessions[sid].qrExpiresAt

AtDeadline(k) ==
    LET sid == FindByToken(k) IN
    sid /= NULL /\ now = sessions[sid].qrExpiresAt

ExpiredTokenRejected ==
    /\ [](\A k \in IssuedTokens, s \in Students :
            /\ PastDeadline(k) => CheckInOutcome(k, s) = "TokenExpired"
            /\ AtDeadline(k) => CheckInOutcome(k, s) \in {"ok", "DuplicateCheckIn"})
    /\ [][ledger' /= ledger =>
            \A k \in IssuedTokens, s \in Students :
                CheckIn(k, s) => ~PastDeadline(k)]_vars

\* an active session whose current token is past its deadline, with a
\* check-in recorded before the deadline
ExpiredTokenWitness ==
    \E id \in DOMAIN sessions :
        /\ sessions[id].isActive /\ sessions[id].qrToken /= NULL
        /\ now > sessions[id].qrExpiresAt
        /\ \E i \in DOMAIN ledger : ledger[i].session = id

\* a token that was issued and is no longer any session's current token
Stale(k) ==
    /\ k < nextToken
    /\ \A id \in DOMAIN sessions : sessions[id].qrToken /= k

\* C6: a token that was replaced or cleared stays so, and every Verify or
\* CheckIn presenting it fails and inserts nothing
StaleTokenRejected ==
    /\ [](\A k \in IssuedTokens, s \in Students :
            Stale(k) => /\ CheckInOutcome(k, s) = "InvalidToken"
                        /\ VerifyOutcome(k, s) = "InvalidOrExpired")
    /\ [][/\ sessions' /= sessions =>
                \A k \in IssuedTokens : Stale(k) => Stale(k)'
          /\ ledger' /= ledger =>
                \A k \in IssuedTokens, s \in Students :
                    CheckIn(k, s) => ~Stale(k)]_vars

\* a replaced token whose own deadline has not passed, while its session is
\* still active with the newer token
StaleTokenWitness ==
    \E id \in DOMAIN sessions :
        /\ sessions[id].isActive /\ sessions[id].qrToken = 2
        /\ Stale(1)
        /\ now < sessions[id].startTime + QR_EXPIRY_SECONDS

RotationIssuesNewToken ==
    [][\A id \in SessionIds, t \in Teachers :
        (/\ nextToken' /= nextToken
         /\ \/ RefreshOutcome(id, t) = "ok" /\ RefreshQR(id, t)
            \/ /\ StartOutcome(id, t) = "ok" /\ sessions[id].isActive
               /\ StartSession(id, t)) =>
            /\ sessions'[id].qrToken /= NULL
            /\ sessions'[id].qrToken /= sessions[id].qrToken
            /\ sessions'[id].qrExpiresAt = now + QR_EXPIRY_SECONDS
            /\ sessions'[id].qrExpiresAt > now
            /\ sessions'[id].isActive]_vars

\* a never-stopped session whose token was issued later than its start
RotationWitness ==
    \E id \in DOMAIN sessions :
        /\ sessions[id].isActive /\ sessions[id].endTime = NULL
        /\ sessions[id].startTime < now
        /\ sessions[id].qrToken = 2
        /\ sessions[id].qrExpiresAt = now + QR_EXPIRY_SECONDS

\* what the auto-stop leaves of a session it stops
SweptDoc(doc, t) ==
    [doc EXCEPT !.isActive = FALSE, !.qrToken = NULL, !.qrExpiresAt = NULL,
                !.endTime = IF doc.endTime = NULL THEN t ELSE doc.endTime]

PastExpiry(doc, t) == doc.expiresAt /= NULL /\ doc.expiresAt < t

\* C9 as stated: a sweep stops every active session whose expiresAt < now
SweepStopsEveryExpired ==
    [][\A t \in Teachers :
        (sessions' /= sessions /\ GetSessions(t)) =>
            \A id \in DOMAIN sessions :
                (sessions[id].isActive /\ PastExpiry(sessions[id], now)) =>
                    ~sessions'[id].isActive]_vars

\* C9, amended: the sweep of a listing by teacher t stops every active
\* session of t whose expiresAt < now (endTime set to now only if unset) and
\* leaves every other session unchanged
SweepStopsOwnExpired ==
    [][\A t \in Teachers :
        (sessions' /= sessions /\ GetSessions(t)) =>
            \A id \in DOMAIN sessions :
                IF /\ sessions[id].teacher = t
                   /\ sessions[id].isActive
                   /\ PastExpiry(sessions[id], now)
                THEN sessions'[id] = SweptDoc(sessions[id], now)
                ELSE sessions'[id] = sessions[id]]_vars

\* a session stopped at an instant after its expiresAt, beside an active
\* session still inside its expiresAt
SweepWitness ==
    \E a, b \in DOMAIN sessions :
        /\ ~sessions[a].isActive /\ sessions[a].startTime /= NULL
        /\ PastExpiry(sessions[a], now) /\ sessions[a].endTime = now
        /\ sessions[b].isActive /\ ~PastExpiry(sessions[b], now)

\* every teacher keeps loading the session list
SpecLive == Init /\ [][Next]_vars /\ \A t \in Teachers : WF_vars(GetSessions(t))

NoTokenAfterExpiry ==
    [][nextToken' /= nextToken =>
        \A id \in DOMAIN sessions :
            sessions'[id].qrToken = nextToken =>
                ~PastExpiry(sessions[id], now)]_vars

\* the owner of the session
Owner(id) == sessions[id].teacher

\* C12: Start after expiresAt answers Expired, Start up to and at expiresAt
\* does not, and a session that is inactive after its expiresAt is inactive
\* after every step
ExpiredNeverRestarted ==
    /\ [](\A id \in DOMAIN sessions :
            /\ PastExpiry(sessions[id], now) =>
                   StartOutcome(id, Owner(id)) = "Expired"
            /\ now <= sessions[id].expiresAt =>
                   StartOutcome(id, Owner(id)) = "ok")
    /\ [][sessions' /= sessions =>
            \A id \in DOMAIN sessions :
                (~sessions[id].isActive /\ PastExpiry(sessions[id], now)) =>
                    ~sessions'[id].isActive]_vars

\* a session started at the very instant of its expiresAt, then stopped,
\* which its owner can no longer start though tokens are left to issue
ExpiredWitness ==
    \E id \in DOMAIN sessions :
        /\ sessions[id].startTime = sessions[id].expiresAt
        /\ ~sessions[id].isActive
        /\ PastExpiry(sessions[id], now)
        /\ nextToken <= MaxTokens
        /\ StartOutcome(id, Owner(id)) = "Expired"

\* stopped: inactive with endTime set
Stopped(doc) == ~doc.isActive /\ doc.endTime /= NULL

\* C13: the owner's Start on a stopped session at now <= expiresAt succeeds;
\* the session is then active with a token never issued before and the
\* deadline now + R
StoppedRestarts ==
    /\ [](\A id \in DOMAIN sessions :
            (Stopped(sessions[id]) /\ now <= sessions[id].expiresAt) =>
                StartOutcome(id, Owner(id)) = "ok")
    /\ [][nextToken' /= nextToken =>
            \A id \in DOMAIN sessions :
                (Stopped(sessions[id]) /\ StartSession(id, Owner(id))) =>
                    /\ sessions'[id].isActive
                    /\ sessions'[id].qrToken = nextToken
                    /\ sessions'[id].qrExpiresAt = now + QR_EXPIRY_SECONDS
                    /\ sessions'[id].endTime = sessions[id].endTime]_vars

\* a session stopped and then started again at the instant of its expiresAt
RestartWitness ==
    \E id \in DOMAIN sessions :
        /\ sessions[id].isActive
        /\ sessions[id].endTime /= NULL
        /\ sessions[id].startTime < sessions[id].endTime
        /\ now = sessions[id].expiresAt
        /\ sessions[id].qrToken = 2
        /\ sessions[id].qrExpiresAt = now + QR_EXPIRY_SECONDS

\* C14 as stated: a successful Stop on a session that is already stopped
\* leaves the whole session as the first Stop left it
StopIdempotent ==
    [][sessions' /= sessions =>
        \A id \in DOMAIN sessions :
            (Stopped(sessions[id]) /\ StopSession(id, Owner(id))) =>
                sessions'[id] = sessions[id]]_vars

\* C15: Start and Stop by a teacher who does not own the session answer
\* NotFound and RefreshToken fails; whenever a session changes, the step is
\* a Start, RefreshToken, Stop or listing of its owner
OnlyOwnerActs ==
    /\ [](\A id \in DOMAIN sessions, t \in Teachers :
            t /= Owner(id) =>
                /\ StartOutcome(id, t) = "NotFound"
                /\ StopOutcome(id, t) = "NotFound"
                /\ RefreshOutcome(id, t) = "InvalidState")
    /\ [][sessions' /= sessions =>
            \A id \in DOMAIN sessions :
                sessions'[id] /= sessions[id] =>
                    \/ StartSession(id, Owner(id))
                    \/ RefreshQR(id, Owner(id))
                    \/ StopSession(id, Owner(id))
                    \/ GetSessions(Owner(id))]_vars

\* sessions of two teachers, one active and one stopped, with a token left
\* for a Start to issue
OnlyOwnerWitness ==
    \E a, b \in DOMAIN sessions :
        /\ Owner(a) /= Owner(b)
        /\ sessions[a].isActive
        /\ Stopped(sessions[b]) /\ now <= sessions[b].expiresAt
        /\ nextToken <= MaxTokens
        /\ StartOutcome(b, Owner(a)) = "NotFound"
        /\ StopOutcome(a, Owner(b)) = "NotFound"

\* C16: RefreshToken by the owner on a session that is not active answers
\* InvalidState; a successful RefreshToken leaves startTime, endTime,
\* expiresAt and isActive as they were
RefreshOnlyRotates ==
    /\ [](\A id \in DOMAIN sessions :
            ~sessions[id].isActive =>
                RefreshOutcome(id, Owner(id)) = "InvalidState")
    /\ [][nextToken' /= nextToken =>
            \A id \in DOMAIN sessions :
                (RefreshOutcome(id, Owner(id)) = "ok" /\ RefreshQR(id, Owner(id))) =>
                    /\ sessions'[id].startTime = sessions[id].startTime
                    /\ sessions'[id].endTime = sessions[id].endTime
                    /\ sessions'[id].expiresAt = sessions[id].expiresAt
                    /\ sessions'[id].isActive = sessions[id].isActive]_vars

\* an active session refreshed later than its start, beside a session that
\* was never started and one cannot refresh
RefreshWitness ==
    \E a, b \in DOMAIN sessions :
        /\ sessions[a].isActive /\ sessions[a].startTime < now
        /\ sessions[a].qrToken = 2
        /\ sessions[a].qrExpiresAt = now + QR_EXPIRY_SECONDS
        /\ sessions[b].startTime = NULL
        /\ RefreshOutcome(b, Owner(b)) = "InvalidState"

\* C17: no step changes the expiresAt or the teacher of a session
ExpiryAndOwnerFixed ==
    [][sessions' /= sessions =>
        \A id \in DOMAIN sessions :
            /\ id \in DOMAIN sessions'
            /\ sessions'[id].expiresAt = sessions[id].expiresAt
            /\ sessions'[id].teacher = sessions[id].teacher]_vars

\* a session with a check-in on record, stopped after its expiresAt
ExpiryFixedWitness ==
    \E id \in DOMAIN sessions :
        /\ Stopped(sessions[id])
        /\ sessions[id].startTime /= NULL
        /\ sessions[id].expiresAt = Midnight
        /\ sessions[id].endTime > sessions[id].expiresAt
        /\ \E i \in DOMAIN ledger : ledger[i].session = id

\* the token resolves to an active session and is inside its deadline
ValidToken(k) ==
    LET sid == FindByToken(k) IN
    /\ sid /= NULL
    /\ sessions[sid].isActive
    /\ ~(sessions[sid].qrExpiresAt /= NULL /\ now > sessions[sid].qrExpiresAt)

LateBy(doc, t) ==
    doc.startTime /= NULL /\ t - doc.startTime > LateThresholdMinutes * 60

FailsValidation == {"InvalidToken", "SessionInactive", "TokenExpired"}

VerifyReportsAttended ==
    /\ [](\A k \in IssuedTokens, s \in Students :
            ValidToken(k) =>
                /\ VerifyOutcome(k, s) \in {"ok", "alreadyAttended"}
                /\ VerifyOutcome(k, s) = "alreadyAttended"
                       <=> RecordsOf(s, FindByToken(k), DayKey(now)) /= {}
                /\ VerifyOutcome(k, s) = "alreadyAttended"
                       <=> CheckInOutcome(k, s) = "DuplicateCheckIn")
    /\ [][(sessions' /= sessions \/ ledger' /= ledger) =>
            \A k \in TokenInputs, s \in Students : ~VerifyToken(k, s)]_vars

\* a valid token that one student has redeemed today and the other has not
VerifyAttendedWitness ==
    \E k \in IssuedTokens, s, u \in Students :
        /\ ValidToken(k)
        /\ VerifyOutcome(k, s) = "alreadyAttended"
        /\ VerifyOutcome(k, u) = "ok"

\* C22: with Start and RefreshToken requests interleaved, a token resolves
\* to at most one session, and a Start or RefreshToken that saves on a
\* session no Stop has deactivated since the request loaded it stores the
\* token it generated together with the deadline now + R, the token it
\* replaces resolving to no session afterwards
TokenAndDeadlineTogether ==
    /\ [](\A k \in IssuedTokens :
            Cardinality({id \in DOMAIN sessions : sessions[id].qrToken = k}) <= 1)
    /\ [][nextToken' /= nextToken =>
            \A slot \in Slots :
                (/\ SaveStart(slot) \/ SaveRefresh(slot)
                 /\ sessions[reqs[slot].sid].isActive \/ ~Loaded(slot).isActive) =>
                    LET id == reqs[slot].sid IN
                    /\ sessions'[id].qrToken = nextToken
                    /\ sessions'[id].qrExpiresAt = now + QR_EXPIRY_SECONDS
                    /\ \A k \in IssuedTokens :
                           k /= nextToken =>
                               \A j \in DOMAIN sessions' :
                                   sessions'[j].qrToken = k =>
                                       /\ j /= id
                                       /\ sessions'[j] = sessions[j]]_vars

\* two Starts that both loaded the unstarted session have both saved: the
\* second save restamped startTime after a check-in with the first token,
\* and the session holds the second token with its own deadline
TwoStartsWitness ==
    /\ Quiescent
    /\ \E id \in DOMAIN sessions :
        /\ sessions[id].isActive
        /\ sessions[id].qrToken = 2
        /\ sessions[id].qrExpiresAt = now + QR_EXPIRY_SECONDS
        /\ \E i \in DOMAIN ledger :
               /\ ledger[i].session = id
               /\ ledger[i].timestamp < sessions[id].startTime

\* the records made by presenting token k: those of its session stamped
\* after the instant k was issued (k has been the session's token since)
RedeemedWith(k) ==
    LET sid == FindByToken(k) IN
    IF sid = NULL \/ sessions[sid].qrExpiresAt = NULL THEN {}
    ELSE {i \in DOMAIN ledger :
             /\ ledger[i].session = sid
             /\ ledger[i].timestamp >
                    sessions[sid].qrExpiresAt - QR_EXPIRY_SECONDS}

\* C23 as stated: no CheckIn succeeds with a token that a successful CheckIn
\* has presented before
TokenSingleUse ==
    [][ledger' /= ledger =>
        \A k \in IssuedTokens, s \in Students :
            CheckIn(k, s) => RedeemedWith(k) = {}]_vars

\* C23, amended: a token that has been redeemed and is still valid is
\* accepted from every student without a record of the session and the day
\* key of now and answered with DuplicateCheckIn for the others; no student
\* redeems one token twice on one day
TokenOncePerStudentDay ==
    /\ [](\A k \in IssuedTokens, s \in Students :
            (ValidToken(k) /\ RedeemedWith(k) /= {}) =>
                CheckInOutcome(k, s) =
                    IF RecordsOf(s, FindByToken(k), DayKey(now)) /= {}
                    THEN "DuplicateCheckIn" ELSE "ok")
    /\ [][ledger' /= ledger =>
            \A k \in IssuedTokens, s \in Students :
                CheckIn(k, s) =>
                    \A i \in RedeemedWith(k) :
                        \/ ledger[i].student /= s
                        \/ ledger[i].attendanceDate /= DayKey(now)]_vars

\* two students recorded with one token that is still valid
TokenReusedWitness ==
    \E k \in IssuedTokens :
        /\ ValidToken(k)
        /\ \E i, j \in RedeemedWith(k) : ledger[i].student /= ledger[j].student

\* C24: every step that changes the ledger is a successful CheckIn and
\* appends one record, leaving the records already there as they were
LedgerAppendOnly ==
    [][ledger' /= ledger =>
        /\ Len(ledger') = Len(ledger) + 1
        /\ SubSeq(ledger', 1, Len(ledger)) = ledger
        /\ \E k \in IssuedTokens, s \in Students :
               CheckInOutcome(k, s) = "ok" /\ CheckIn(k, s)]_vars

\* two records, the first older than the second, of a session that has
\* since been stopped
LedgerAppendWitness ==
    /\ Len(ledger) = 2
    /\ ledger[1].timestamp < ledger[2].timestamp
    /\ \E id \in DOMAIN sessions :
           /\ Stopped(sessions[id])
           /\ ledger[1].session = id
           /\ sessions[id].endTime > ledger[1].timestamp

\* C25: every session belongs to a teacher-role user and every record to a
\* student-role user; a step that changes a session is a lifecycle request
\* of a teacher-role caller, a step that changes the ledger a CheckIn of a
\* student-role caller
RoleSeparation ==
    /\ [](/\ \A id \in DOMAIN sessions : Role(sessions[id].teacher) = "teacher"
          /\ \A i \in DOMAIN ledger : Role(ledger[i].student) = "student")
    /\ [][/\ sessions' /= sessions =>
                \E u \in Users :
                    /\ Role(u) = "teacher"
                    /\ \/ \E s \in Subjects, e \in ExpiryInputs :
                              CreateSession(u, s, e)
                       \/ GetSessions(u)
                       \/ \E id \in SessionIds :
                              \/ StartSession(id, u)
                              \/ RefreshQR(id, u)
                              \/ StopSession(id, u)
          /\ ledger' /= ledger =>
                \E u \in Users, k \in TokenInputs :
                    Role(u) = "student" /\ CheckIn(k, u)]_vars

\* a student recorded on a teacher's running session, with a session and a
\* token left for a request of the wrong role to take
RoleWitness ==
    /\ Len(sessions) < MaxSessions
    /\ nextToken <= MaxTokens
    /\ Len(ledger) < MaxRecords
    /\ \E i \in DOMAIN ledger :
           /\ Role(ledger[i].student) = "student"
           /\ sessions[ledger[i].session].isActive
           /\ \A u \in Students : ~RestrictTo({"teacher"}, u)
           /\ \A u \in Teachers : ~RestrictTo({"student"}, u)

\* the records of a listing, as a set
Listed(list) == {list[i] : i \in DOMAIN list}

\* C29: the listing of a session holds exactly the ledger's records of that
\* session, in ascending timestamp order; the listing of a student holds
\* exactly the ledger's records of that student, in descending timestamp
\* order
ListingsOrdered ==
    /\ \A sid \in DOMAIN sessions :
           LET list == ListBySession(sid) IN
           /\ Listed(list) = {r \in Listed(ledger) : r.session = sid}
           /\ Len(list) = Cardinality(Listed(list))
           /\ \A i, j \in DOMAIN list :
                  i < j => list[i].timestamp <= list[j].timestamp
    /\ \A student \in Students :
           LET list == ListByStudent(student) IN
           /\ Listed(list) = {r \in Listed(ledger) : r.student = student}
           /\ Len(list) = Cardinality(Listed(list))
           /\ \A i, j \in DOMAIN list :
                  i < j => list[i].timestamp >= list[j].timestamp

\* a student with an older and a newer record, listed newest first, and a
\* session with two records listed oldest first
ListingsWitness ==
    /\ \E student \in Students :
           /\ Len(ListByStudent(student)) = 2
           /\ ListByStudent(student)[1].timestamp
                  > ListByStudent(student)[2].timestamp
    /\ \E sid \in DOMAIN sessions :
           /\ Len(ListBySession(sid)) = 2
           /\ ListBySession(sid)[1].timestamp < ListBySession(sid)[2].timestamp

\* C26: the session a Create adds is inactive with no token, no deadline,
\* no startTime and no endTime, and a Create without expiresAt gives it the
\* expiresAt of now + 210 days
CreatedState ==
    [][Len(sessions') > Len(sessions) =>
        LET doc == sessions'[Len(sessions')] IN
        /\ ~doc.isActive
        /\ doc.qrToken = NULL /\ doc.qrExpiresAt = NULL
        /\ doc.startTime = NULL /\ doc.endTime = NULL
        /\ \A t \in Teachers, s \in Subjects :
               CreateSession(t, s, NULL) =>
                   doc.expiresAt = now + 210 * 24 * 60 * 60]_vars

\* a session created without expiresAt at the first instant, never started,
\* beside one created with an expiresAt
CreatedWitness ==
    \E a, b \in DOMAIN sessions :
        /\ sessions[a].expiresAt = FirstInstant + 210 * 24 * 60 * 60
        /\ ~sessions[a].isActive /\ sessions[a].startTime = NULL
        /\ sessions[b].expiresAt = Midnight

\* C27: a Create with an empty subject answers ValidationError, no step
\* that changes the store is such a Create, and no stored session has an
\* empty subject
EmptySubjectRejected ==
    /\ [](/\ CreateOutcome("") = "ValidationError"
          /\ \A id \in DOMAIN sessions : sessions[id].subject /= "")
    /\ [][sessions' /= sessions =>
            \A t \in Teachers, e \in ExpiryInputs : ~CreateSession(t, "", e)]_vars

\* a store with one session and room for the one an empty-subject Create
\* would have added
EmptySubjectWitness ==
    /\ Len(sessions) = 1
    /\ Len(sessions) < MaxSessions
    /\ sessions[1].subject = "Algebra"
    /\ CreateOutcome("") = "ValidationError"

\* the number of the calendar day of the instant shifted by +8 hours
ShiftedDay(t) == (t + 8 * 60 * 60) \div (24 * 60 * 60)

\* C28: an instant gets the day key of now exactly when its
\* floor((t + 8h) / 24h) is that of now; every record carries the day key of the instant it was
\* inserted at, and the duplicate lookup of CheckIn and of Verify finds a
\* record exactly when its instant has the floor((t + 8h) / 24h) of now
DayKeyIsShiftedDate ==
    /\ \A t \in DayInstants :
           DayKey(t) = DayKey(now) <=> ShiftedDay(t) = ShiftedDay(now)
    /\ \A i \in DOMAIN ledger :
           ledger[i].attendanceDate = DayKey(ledger[i].timestamp)
    /\ \A k \in IssuedTokens, s \in Students :
           ValidToken(k) =>
               LET sameDay == \E i \in DOMAIN ledger :
                                  /\ ledger[i].student = s
                                  /\ ledger[i].session = FindByToken(k)
                                  /\ ShiftedDay(ledger[i].timestamp) = ShiftedDay(now)
               IN /\ CheckInOutcome(k, s) = "DuplicateCheckIn" <=> sameDay
                  /\ VerifyOutcome(k, s) = "alreadyAttended" <=> sameDay

\* one student recorded twice on one session, a second apart, on the two
\* sides of 00:00 in UTC+8, which is 16:00 of one UTC day
DayKeyWitness ==
    \E i, j \in DOMAIN ledger :
        /\ ledger[i].student = ledger[j].student
        /\ ledger[i].session = ledger[j].session
        /\ ledger[j].timestamp = ledger[i].timestamp + 1
        /\ ledger[i].attendanceDate /= ledger[j].attendanceDate
        /\ ledger[i].timestamp \div (24 * 60 * 60)
               = ledger[j].timestamp \div (24 * 60 * 60)

\* C30: a session that is active or holds a token has startTime set, and so
\* has the session of every token that resolves and of every record
StartedWhenActive ==
    /\ \A id \in DOMAIN sessions :
           (sessions[id].isActive \/ sessions[id].qrToken /= NULL) =>
               sessions[id].startTime /= NULL
    /\ \A k \in IssuedTokens :
           FindByToken(k) /= NULL => sessions[FindByToken(k)].startTime /= NULL
    /\ \A i \in DOMAIN ledger : sessions[ledger[i].session].startTime /= NULL

\* a started session that was stopped and is running again, with a record,
\* beside a session that was never started
StartedWitness ==
    \E a, b \in DOMAIN sessions :
        /\ sessions[a].isActive /\ sessions[a].qrToken /= NULL
        /\ sessions[a].endTime /= NULL
        /\ \E i \in DOMAIN ledger : ledger[i].session = a
        /\ sessions[b].startTime = NULL /\ ~sessions[b].isActive

\* C31: a Start on a session that was started before, stopped or not, keeps
\* the startTime of the first Start, and every record a CheckIn appends more
\* than 15 minutes after that startTime has status 'late', however recent
\* the last Start was
LateFromFirstStart ==
    [][/\ sessions' /= sessions =>
            \A id \in DOMAIN sessions :
                sessions[id].startTime /= NULL =>
                    sessions'[id].startTime = sessions[id].startTime
       /\ ledger' /= ledger =>
            LET r == ledger'[Len(ledger')] IN
            now - sessions[r.session].startTime > LateThresholdMinutes * 60
                => r.status = "late"]_vars

\* a late record of a session that was stopped and started again at the
\* instant of the check-in, more than 15 minutes after its first Start
LateAfterRestartWitness ==
    \E i \in DOMAIN ledger :
        LET doc == sessions[ledger[i].session] IN
        /\ ledger[i].status = "late"
        /\ doc.endTime /= NULL
        /\ doc.startTime < doc.endTime
        /\ doc.isActive
        /\ doc.qrExpiresAt = ledger[i].timestamp + QR_EXPIRY_SECONDS
        /\ ledger[i].timestamp - doc.startTime > LateThresholdMinutes * 60

\* C32: with the requests served one at a time no CheckIn answers
\* SessionInactive, and after a step that makes a session inactive (Stop or
\* the auto-stop) a CheckIn with the token the session held answers
\* InvalidToken
InactiveNeverReported ==
    /\ [](\A k \in IssuedTokens, s \in Students :
            CheckInOutcome(k, s) /= "SessionInactive")
    /\ [][sessions' /= sessions =>
            \A id \in DOMAIN sessions :
                (sessions[id].isActive /\ ~sessions'[id].isActive) =>
                    \A k \in IssuedTokens, s \in Students :
                        k = sessions[id].qrToken =>
                            CheckInOutcome(k, s)' = "InvalidToken"]_vars

\* the only session started so far has been stopped or auto-stopped, and a
\* CheckIn with its token answers InvalidToken
LastTokenWitness ==
    \E id \in DOMAIN sessions :
        /\ sessions[id].startTime /= NULL
        /\ sessions[id].endTime /= NULL
        /\ ~sessions[id].isActive
        /\ nextToken = 2
        /\ CheckInOutcome(1, "s1") = "InvalidToken"

\* the sessions that hold the token
HoldersOf(k) == {id \in DOMAIN sessions : sessions[id].qrToken = k}

\* C33: no two sessions hold the same token, so a token resolves to at most
\* one session; a Start or RefreshToken whose token another session holds
\* answers a server fault and changes no session
TokenHeldOnce ==
    /\ [](\A k \in IssuedTokens : Cardinality(HoldersOf(k)) <= 1)
    /\ [][\A id \in SessionIds, t \in Teachers, k \in IssuedTokens :
            (TokenIndexRejects(id, k)
                /\ (StartDrawn(id, t, k) \/ RefreshDrawn(id, t, k)))
            => /\ sessions' = sessions
               /\ StartDrawnOutcome(id, t, k) \in {"NotFound", "Expired", "ServerFault"}
               /\ RefreshDrawnOutcome(id, t, k) \in {"InvalidState", "ServerFault"}]_vars

\* two sessions hold a token each, and the owner's RefreshToken of one with
\* the token of the other answers a server fault
TokenClashWitness ==
    \E a, b \in DOMAIN sessions :
        /\ a /= b
        /\ sessions[a].qrToken /= NULL
        /\ sessions[b].qrToken /= NULL
        /\ RefreshDrawnOutcome(b, sessions[b].teacher, sessions[a].qrToken)
               = "ServerFault"

\* C34: no CheckIn step changes a session; a step that changes the ledger
\* changes no session and appends exactly one record, of the calling
\* student and of the session the token resolved to; a CheckIn that does
\* not answer success leaves the ledger as it was
CheckInFrame ==
    [][/\ sessions' /= sessions =>
            \A k \in TokenInputs, s \in Students : ~CheckIn(k, s)
       /\ ledger' /= ledger =>
            /\ sessions' = sessions
            /\ Len(ledger') = Len(ledger) + 1
            /\ SubSeq(ledger', 1, Len(ledger)) = ledger
            /\ \E k \in IssuedTokens, s \in Students :
                   /\ CheckInOutcome(k, s) = "ok"
                   /\ ledger'[Len(ledger')].student = s
                   /\ ledger'[Len(ledger')].session = FindByToken(k)
       /\ ledger' /= ledger =>
            \A k \in TokenInputs, s \in Students :
                CheckInOutcome(k, s) /= "ok" => ~CheckIn(k, s)]_vars

\* one record is in the ledger, its session is still active with the token
\* it held, and a second CheckIn of the student is answered DuplicateCheckIn
CheckInFrameWitness ==
    /\ Len(ledger) = 1
    /\ LET doc == sessions[ledger[1].session] IN
       /\ doc.isActive
       /\ doc.qrToken /= NULL
       /\ doc.qrExpiresAt = ledger[1].timestamp + QR_EXPIRY_SECONDS
       /\ CheckInOutcome(doc.qrToken, ledger[1].student) = "DuplicateCheckIn"

\* C35: with the requests interleaved, every record is inserted while its
\* session is active: no insert follows the save of a Stop or of the
\* auto-stop of that session
NoInsertAfterStop ==
    [][ledger' /= ledger =>
           sessions[ledger'[Len(ledger')].session].isActive]_vars

\* C36: the auto-stop of a listing by teacher t changes no session of
\* another teacher, an active one past its expiresAt included
SweepOnlyOwn ==
    [][sessions' /= sessions =>
           \A t \in Teachers :
               GetSessions(t) =>
                   \A id \in DOMAIN sessions :
                       sessions[id].teacher /= t =>
                           sessions'[id] = sessions[id]]_vars

\* two sessions of different teachers past their expiresAt: one stopped by
\* its owner's listing at this instant, the other still active with its
\* token
SweepOnlyOwnWitness ==
    \E a, b \in DOMAIN sessions :
        /\ sessions[a].teacher /= sessions[b].teacher
        /\ PastExpiry(sessions[a], now) /\ PastExpiry(sessions[b], now)
        /\ ~sessions[a].isActive /\ sessions[a].startTime /= NULL
        /\ sessions[a].endTime = now /\ sessions[a].qrToken = NULL
        /\ sessions[b].isActive /\ sessions[b].qrToken /= NULL

\* C37: for every session and instant, isQrValid is true exactly when a
\* CheckIn with the session's current token passes the active test and the
\* deadline test, the instant now = qrExpiresAt included
QrValidAgreesWithCheckIn ==
    \A id \in DOMAIN sessions :
        IsQrValid(sessions[id], now) <=>
            /\ sessions[id].qrToken /= NULL
            /\ \A s \in Students :
                   CheckInOutcome(sessions[id].qrToken, s)
                       \notin {"TokenRequired", "InvalidToken",
                               "SessionInactive", "TokenExpired"}

\* the refresh requests in flight
RefreshesInFlight == {slot \in Slots : reqs[slot].op = "refresh"}

\* C38: with the QR modal open on an active session, a timer tick at
\* countdown 0 posts a RefreshToken request, and at no time is more than one
\* refresh request in flight
ModalRefreshesOnce ==
    /\ [](Cardinality(RefreshesInFlight) <= 1)
    /\ [][(now' /= now /\ Countdown(sessions[1], now') = 0) =>
            \E slot \in Slots :
                reqs[slot].op = "idle" /\ reqs'[slot].op = "refresh"]_vars

====
